---- MODULE Spec2Model ----
(***************************************************************************)
(* Model of the Bitcoin wire-format codec of src/src/lib.rs: CompactSize,  *)
(* OutPoint, Script, TransactionInput and BitcoinTransaction, each with    *)
(* its to_bytes and from_bytes.                                            *)
(*                                                                         *)
(* Numbers.  A byte is a number in 0..255.  TLC's integers are 32 bits     *)
(* wide, so the wider machine integers are kept as tuples of 16-bit words, *)
(* most significant word first: a u32 is <<hi, lo>>, a u64 (and a usize,   *)
(* taken to be 64 bits wide) is <<w3, w2, w1, w0>>.  to_le_bytes and       *)
(* from_le_bytes are real conversions between these and byte sequences.    *)
(* Slice lengths and offsets that are bounded by the length of a slice in  *)
(* memory are plain naturals.                                              *)
(*                                                                         *)
(* Results.  A call returns Ok(value, consumed), Err(kind), or it panics.  *)
(***************************************************************************)
EXTENDS Integers, Sequences, FiniteSets, TLC

VARIABLES
    fn,               \* the function called last ("idle" before any call)
    subject,             \* the value last encoded by a to_bytes (None when there is none)
    wire,             \* the bytes that to_bytes produced from `subject`
    slice,            \* the slice a from_bytes was called on
    ret,              \* what the from_bytes produced: Ok, Err or Panic
    overflow_checks   \* build profile: TRUE = arithmetic overflow panics, FALSE = it wraps

vars == <<fn, subject, wire, slice, ret, overflow_checks>>

----------------------------------------------------------------------------
(* Bounds of the model *)

\* longest sequence of freely chosen bytes at the head of a raw slice's body
MaxLow == 2
\* longest run of a repeated byte that ends a raw slice's body
MaxFill == 7
\* longest sequence of unrelated bytes that follows an encoding in a buffer
MaxTail == 2
\* most bytes cut off the end of an encoding
MaxCut == 3
\* most inputs of a transaction
MaxInputs == 3

----------------------------------------------------------------------------
(* Results and errors *)

InsufficientBytes == "InsufficientBytes"
InvalidFormat == "InvalidFormat"

Ok(v, n) == [tag |-> "Ok", val |-> v, used |-> n]
Err(e) == [tag |-> "Err", err |-> e]
Panic(m) == [tag |-> "Panic", msg |-> m]

IsOk(r) == r.tag = "Ok"
IsErr(r) == r.tag = "Err"
IsPanic(r) == r.tag = "Panic"

----------------------------------------------------------------------------
(* Machine integers *)

Word == 256 * 256

\* u16::to_le_bytes / u16::from_le_bytes
U16_to_le_bytes(w) == <<w % 256, w \div 256>>
U16_from_le_bytes(b) == b[1] + 256 * b[2]

\* u32::to_le_bytes / u32::from_le_bytes, on <<hi, lo>>
U32_to_le_bytes(v) == U16_to_le_bytes(v[2]) \o U16_to_le_bytes(v[1])
U32_from_le_bytes(b) == <<b[3] + 256 * b[4], b[1] + 256 * b[2]>>

\* u64::to_le_bytes / u64::from_le_bytes, on <<w3, w2, w1, w0>>
U64_to_le_bytes(v) ==
    U16_to_le_bytes(v[4]) \o U16_to_le_bytes(v[3]) \o
    U16_to_le_bytes(v[2]) \o U16_to_le_bytes(v[1])
U64_from_le_bytes(b) ==
    <<b[7] + 256 * b[8], b[5] + 256 * b[6], b[3] + 256 * b[4], b[1] + 256 * b[2]>>

\* the casts `as u64` of a u8/u16, of a u32, and of a small usize (a slice length)
U64_from_small(n) == <<0, 0, n \div Word, n % Word>>
U64_from_u32(v) == <<0, 0, v[1], v[2]>>
\* the casts `as u16` and `as u32` of a u64: truncation
U64_as_u16(v) == v[4]
U64_as_u32(v) == <<v[3], v[4]>>
\* a u64 known to be below 2^31, as a natural
U64_to_small(v) == v[3] * Word + v[4]

\* a < b on u64
U64_lt(a, b) ==
    \E i \in 1..4 : a[i] < b[i] /\ \A j \in 1..(i - 1) : a[j] = b[j]
U64_le(a, b) == a = b \/ U64_lt(a, b)

\* a + b on u64: the wrapped sum and whether it overflowed
U64_add(a, b) ==
    LET s4 == a[4] + b[4]
        s3 == a[3] + b[3] + s4 \div Word
        s2 == a[2] + b[2] + s3 \div Word
        s1 == a[1] + b[1] + s2 \div Word
    IN  [value |-> <<s1 % Word, s2 % Word, s3 % Word, s4 % Word>>,
         overflow |-> s1 \div Word > 0]

----------------------------------------------------------------------------
(* CompactSize *)

CompactSize_new(value) == [value |-> value]

\* faulty variant: the one-byte range reaches 0xFD, which is the two-byte marker
CompactSize_to_bytes_OneByteFD(self) ==
    LET value == self.value IN
    IF U64_le(value, <<0, 0, 0, 253>>) THEN <<U64_to_small(value) % 256>>
    ELSE IF U64_le(value, <<0, 0, 0, 65535>>)
         THEN <<253>> \o U16_to_le_bytes(U64_as_u16(value))
    ELSE IF U64_le(value, <<0, 0, 65535, 65535>>)
         THEN <<254>> \o U32_to_le_bytes(U64_as_u32(value))
    ELSE <<255>> \o U64_to_le_bytes(value)

CompactSize_to_bytes(self) ==
    LET value == self.value IN
    IF U64_le(value, <<0, 0, 0, 252>>) THEN <<U64_to_small(value) % 256>>
    ELSE IF U64_le(value, <<0, 0, 0, 65535>>)
         THEN <<253>> \o U16_to_le_bytes(U64_as_u16(value))
    ELSE IF U64_le(value, <<0, 0, 65535, 65535>>)
         THEN <<254>> \o U32_to_le_bytes(U64_as_u32(value))
    ELSE <<255>> \o U64_to_le_bytes(value)

\* faulty variant: the non-minimal encodings are accepted
CompactSize_from_bytes_NoMinimal(bytes) ==
    IF Len(bytes) = 0 THEN Err(InsufficientBytes)
    ELSE IF bytes[1] <= 252 THEN Ok(CompactSize_new(U64_from_small(bytes[1])), 1)
    ELSE IF bytes[1] = 253 THEN
        IF Len(bytes) < 3 THEN Err(InsufficientBytes)
        ELSE Ok(CompactSize_new(U64_from_small(U16_from_le_bytes(SubSeq(bytes, 2, 3)))), 3)
    ELSE IF bytes[1] = 254 THEN
        IF Len(bytes) < 5 THEN Err(InsufficientBytes)
        ELSE Ok(CompactSize_new(U64_from_u32(U32_from_le_bytes(SubSeq(bytes, 2, 5)))), 5)
    ELSE
        IF Len(bytes) < 9 THEN Err(InsufficientBytes)
        ELSE Ok(CompactSize_new(U64_from_le_bytes(SubSeq(bytes, 2, 9))), 9)

CompactSize_from_bytes(bytes) ==
    IF Len(bytes) = 0 THEN Err(InsufficientBytes)
    ELSE IF bytes[1] <= 252 THEN Ok(CompactSize_new(U64_from_small(bytes[1])), 1)
    ELSE IF bytes[1] = 253 THEN
        IF Len(bytes) < 3 THEN Err(InsufficientBytes)
        ELSE LET value == U64_from_small(U16_from_le_bytes(SubSeq(bytes, 2, 3))) IN
             IF U64_lt(value, <<0, 0, 0, 253>>) THEN Err(InvalidFormat)
             ELSE Ok(CompactSize_new(value), 3)
    ELSE IF bytes[1] = 254 THEN
        IF Len(bytes) < 5 THEN Err(InsufficientBytes)
        ELSE LET value == U64_from_u32(U32_from_le_bytes(SubSeq(bytes, 2, 5))) IN
             IF U64_le(value, <<0, 0, 0, 65535>>) THEN Err(InvalidFormat)
             ELSE Ok(CompactSize_new(value), 5)
    ELSE
        IF Len(bytes) < 9 THEN Err(InsufficientBytes)
        ELSE LET value == U64_from_le_bytes(SubSeq(bytes, 2, 9)) IN
             IF U64_le(value, <<0, 0, 65535, 65535>>) THEN Err(InvalidFormat)
             ELSE Ok(CompactSize_new(value), 9)

----------------------------------------------------------------------------
(* OutPoint: a Txid (32 bytes) and a u32 vout *)

OutPoint_new(txid, vout) == [txid |-> txid, vout |-> vout]

OutPoint_to_bytes(self) == self.txid \o U32_to_le_bytes(self.vout)

\* faulty variant: a slice of exactly 36 bytes is refused
OutPoint_from_bytes_Le36(bytes) ==
    IF Len(bytes) <= 36 THEN Err(InsufficientBytes)
    ELSE Ok([txid |-> SubSeq(bytes, 1, 32),
             vout |-> U32_from_le_bytes(SubSeq(bytes, 33, 36))], 36)

OutPoint_from_bytes(bytes) ==
    IF Len(bytes) < 36 THEN Err(InsufficientBytes)
    ELSE LET txid == SubSeq(bytes, 1, 32)
             vout == U32_from_le_bytes(SubSeq(bytes, 33, 36))
         IN  Ok([txid |-> txid, vout |-> vout], 36)

----------------------------------------------------------------------------
(* Script: a byte vector, CompactSize-prefixed on the wire *)

Script_new(bytes) == [bytes |-> bytes]

Script_to_bytes(self) ==
    LET compact_size_len == CompactSize_to_bytes(CompactSize_new(U64_from_small(Len(self.bytes))))
    IN  compact_size_len \o self.bytes

\* faulty variant: a CompactSize error is passed on unchanged
Script_from_bytes_Propagate(bytes, checks) ==
    LET parse_output == CompactSize_from_bytes(bytes) IN
    IF IsErr(parse_output) THEN parse_output
    ELSE
        LET var_int_len == parse_output.used
            script_len == parse_output.val.value
            sum == U64_add(U64_from_small(var_int_len), script_len)
            total_len == sum.value
        IN  IF sum.overflow /\ checks THEN Panic("attempt to add with overflow")
            ELSE IF U64_lt(U64_from_small(Len(bytes)), total_len) THEN Err(InsufficientBytes)
            ELSE IF U64_lt(total_len, U64_from_small(var_int_len))
                 THEN Panic("slice index starts after its end")
            ELSE Ok([bytes |-> SubSeq(bytes, var_int_len + 1, U64_to_small(total_len))],
                    U64_to_small(total_len))

\* faulty variant: the payload is everything after the prefix
Script_from_bytes_TakeRest(bytes, checks) ==
    LET parse_output == CompactSize_from_bytes(bytes) IN
    IF IsErr(parse_output) THEN Err(InsufficientBytes)
    ELSE
        LET var_int_len == parse_output.used
            script_len == parse_output.val.value
            sum == U64_add(U64_from_small(var_int_len), script_len)
            total_len == sum.value
        IN  IF sum.overflow /\ checks THEN Panic("attempt to add with overflow")
            ELSE IF U64_lt(U64_from_small(Len(bytes)), total_len) THEN Err(InsufficientBytes)
            ELSE IF U64_lt(total_len, U64_from_small(var_int_len))
                 THEN Panic("slice index starts after its end")
            ELSE Ok([bytes |-> SubSeq(bytes, var_int_len + 1, Len(bytes))], Len(bytes))

\* `checks`: whether the build panics on arithmetic overflow (a debug build) or
\* wraps (a release build); usize is 64 bits wide, so `as usize` changes nothing
Script_from_bytes(bytes, checks) ==
    LET parse_output == CompactSize_from_bytes(bytes) IN
    IF IsErr(parse_output) THEN Err(InsufficientBytes)
    ELSE
        LET var_int_len == parse_output.used
            script_len == parse_output.val.value
            sum == U64_add(U64_from_small(var_int_len), script_len)
            total_len == sum.value
        IN  IF sum.overflow /\ checks THEN Panic("attempt to add with overflow")
            ELSE IF U64_lt(U64_from_small(Len(bytes)), total_len) THEN Err(InsufficientBytes)
            \* bytes[var_int_len..total_len]: total_len <= bytes.len() holds here
            ELSE IF U64_lt(total_len, U64_from_small(var_int_len))
                 THEN Panic("slice index starts after its end")
            ELSE Ok([bytes |-> SubSeq(bytes, var_int_len + 1, U64_to_small(total_len))],
                    U64_to_small(total_len))

----------------------------------------------------------------------------
(* TransactionInput *)

TransactionInput_new(previous_output, script_sig, sequence) ==
    [previous_output |-> previous_output, script_sig |-> script_sig, sequence |-> sequence]

TransactionInput_to_bytes(self) ==
    OutPoint_to_bytes(self.previous_output) \o Script_to_bytes(self.script_sig)
        \o U32_to_le_bytes(self.sequence)

\* faulty variant: the 4 bytes of the sequence are left out of the consumed count
TransactionInput_from_bytes_NoSeqCount(bytes, checks) ==
    IF Len(bytes) < 41 THEN Err(InsufficientBytes)
    ELSE
        LET previous_output == [txid |-> SubSeq(bytes, 1, 32),
                                vout |-> U32_from_le_bytes(SubSeq(bytes, 33, 36))]
            parsed == Script_from_bytes(SubSeq(bytes, 37, Len(bytes)), checks)
        IN  IF IsPanic(parsed) THEN parsed
            ELSE IF IsErr(parsed) THEN Err(InsufficientBytes)
            ELSE
                LET sequence_start == 36 + parsed.used IN
                IF Len(bytes) < 4 THEN Err(InsufficientBytes)
                ELSE IF sequence_start + 4 > Len(bytes)
                     THEN Panic("range end index out of range for slice")
                ELSE
                    LET sequence_bytes == SubSeq(bytes, sequence_start + 1, sequence_start + 4) IN
                    IF Len(sequence_bytes) /= 4 THEN Err(InvalidFormat)
                    ELSE Ok([previous_output |-> previous_output,
                             script_sig |-> parsed.val,
                             sequence |-> U32_from_le_bytes(sequence_bytes)],
                            sequence_start)

TransactionInput_from_bytes(bytes, checks) ==
    IF Len(bytes) < 41 THEN Err(InsufficientBytes)
    ELSE
        LET previous_output == [txid |-> SubSeq(bytes, 1, 32),
                                vout |-> U32_from_le_bytes(SubSeq(bytes, 33, 36))]
            parsed == Script_from_bytes(SubSeq(bytes, 37, Len(bytes)), checks)
        IN  IF IsPanic(parsed) THEN parsed
            ELSE IF IsErr(parsed) THEN Err(InsufficientBytes)
            ELSE
                LET script_sig == parsed.val
                    script_bytes == parsed.used
                    sequence_start == 36 + script_bytes
                IN
                IF Len(bytes) < 4 THEN Err(InsufficientBytes)
                \* bytes[sequence_start..sequence_start + 4]
                ELSE IF sequence_start + 4 > Len(bytes)
                     THEN Panic("range end index out of range for slice")
                ELSE
                    LET sequence_bytes == SubSeq(bytes, sequence_start + 1, sequence_start + 4) IN
                    \* try_into::<[u8; 4]>
                    IF Len(sequence_bytes) /= 4 THEN Err(InvalidFormat)
                    ELSE
                        LET sequence == U32_from_le_bytes(sequence_bytes)
                            total_bytes == sequence_start + 4
                        IN  Ok([previous_output |-> previous_output,
                                script_sig |-> script_sig,
                                sequence |-> sequence],
                               total_bytes)

----------------------------------------------------------------------------
(* BitcoinTransaction *)

BitcoinTransaction_new(version, inputs, lock_time) ==
    [version |-> version, inputs |-> inputs, lock_time |-> lock_time]

\* the loop `for input in &self.inputs { bytes.extend(input.to_bytes()) }`
RECURSIVE ExtendInputs(_, _)
ExtendInputs(bytes, inputs) ==
    IF inputs = <<>> THEN bytes
    ELSE ExtendInputs(bytes \o TransactionInput_to_bytes(Head(inputs)), Tail(inputs))

\* faulty variant: the loop stops one input early
BitcoinTransaction_to_bytes_SkipLast(self) ==
    LET input_count == CompactSize_to_bytes(CompactSize_new(U64_from_small(Len(self.inputs))))
        kept == SubSeq(self.inputs, 1, Len(self.inputs) - 1)
    IN  ExtendInputs(U32_to_le_bytes(self.version) \o input_count, kept)
            \o U32_to_le_bytes(self.lock_time)

BitcoinTransaction_to_bytes(self) ==
    LET input_count == CompactSize_to_bytes(CompactSize_new(U64_from_small(Len(self.inputs))))
    IN  ExtendInputs(U32_to_le_bytes(self.version) \o input_count, self.inputs)
            \o U32_to_le_bytes(self.lock_time)

\* the body is todo!(): every call panics
BitcoinTransaction_from_bytes(bytes) == Panic("not yet implemented")

----------------------------------------------------------------------------
(* The values and byte slices the functions are called with *)

SeqsUpTo(S, n) == UNION {[1..k -> S] : k \in 0..n}
Fill(b, n) == [i \in 1..n |-> b]
\* n bytes, all different from their neighbours
Pattern(n, seed) == [i \in 1..n |-> (i * 7 + seed) % 256]

\* 16-bit words: 0, 1, 0xFC, 0xFD, 300, 0xFFF7, 0xFFFF
WordVals == {0, 1, 252, 253, 300, 65527, 65535}
U64Vals == {<<a, b, c, d>> : a \in {0, 1, 65535}, b \in {0, 1, 65535}, c \in WordVals, d \in WordVals}
U32Vals == {<<0, 0>>, <<0, 1>>, <<258, 772>>, <<65535, 65535>>}

\* first bytes 0, 1, 2, 0xFC and the three markers; body bytes 0, 0xFC, 0xFD, 0xFF
FirstBytes == {0, 1, 2, 252, 253, 254, 255}
BodyBytes == {0, 252, 253, 255}
FillBytes == {0, 255}
RawSlices ==
    {<<>>} \cup
    {<<f>> \o low \o Fill(b, n) :
        f \in FirstBytes, low \in SeqsUpTo(BodyBytes, MaxLow), b \in FillBytes, n \in 0..MaxFill}

\* what follows an encoding in a shared buffer, and an encoding cut short
Tails == SeqsUpTo({0, 255}, MaxTail)
Buffers(enc) == {enc \o t : t \in Tails}
Truncations(enc) ==
    {SubSeq(enc, 1, Len(enc) - c) : c \in 1..(IF MaxCut < Len(enc) THEN MaxCut ELSE Len(enc))}

Txids == {Pattern(32, 0), Pattern(32, 200)}
\* the 36 bytes of an OutPoint, before a raw slice
Headers == {t \o <<4, 3, 2, 1>> : t \in Txids}
OutPoints == {OutPoint_new(t, v) : t \in Txids, v \in U32Vals}

\* payload lengths 0, 1, 2, 0xFC, 0xFD, 300
ScriptLens == {0, 1, 2, 252, 253, 300}
Scripts == {Script_new(Pattern(n, seed)) : n \in ScriptLens, seed \in {0, 170}}

TransactionInputs ==
    {TransactionInput_new(o, s, q) : o \in OutPoints, s \in Scripts, q \in U32Vals}

\* the inputs transactions are built from: scripts of 0, 1 and 300 bytes
TxInputs ==
    {TransactionInput_new(OutPoint_new(Pattern(32, 0), <<0, 0>>), Script_new(<<>>), <<65535, 65535>>),
     TransactionInput_new(OutPoint_new(Pattern(32, 200), <<0, 1>>), Script_new(<<172>>), <<0, 0>>),
     TransactionInput_new(OutPoint_new(Pattern(32, 0), <<258, 772>>), Script_new(Pattern(300, 170)), <<0, 1>>)}
Transactions ==
    {BitcoinTransaction_new(v, i, l) :
        v \in {<<0, 1>>, <<0, 2>>}, i \in SeqsUpTo(TxInputs, MaxInputs), l \in {<<0, 0>>, <<258, 772>>}}

----------------------------------------------------------------------------
(* The calls *)

None == [tag |-> "None"]

Init ==
    /\ fn = "idle"
    /\ subject = None
    /\ wire = <<>>
    /\ slice = <<>>
    /\ ret = None
    /\ overflow_checks \in BOOLEAN

\* Every call starts from "idle" (on a value, or on a slice that comes from
\* nowhere) or follows the encoder whose output it decodes: the output followed by
\* unrelated bytes, `subject` and `wire` still holding the value and its encoding, or
\* the output cut short.

Call_CompactSize_to_bytes ==
    /\ fn = "idle"
    /\ \E v \in U64Vals :
        /\ fn' = "CompactSize::to_bytes"
        /\ subject' = CompactSize_new(v)
        /\ wire' = CompactSize_to_bytes(CompactSize_new(v))
    /\ UNCHANGED <<slice, ret, overflow_checks>>

Call_CompactSize_from_bytes ==
    \/ /\ fn = "idle"
       /\ \E b \in RawSlices :
           /\ fn' = "CompactSize::from_bytes"
           /\ slice' = b
           /\ ret' = CompactSize_from_bytes(b)
       /\ UNCHANGED <<subject, wire, overflow_checks>>
    \/ /\ fn = "CompactSize::to_bytes"
       /\ \E b \in Buffers(wire) :
           /\ fn' = "CompactSize::from_bytes"
           /\ slice' = b
           /\ ret' = CompactSize_from_bytes(b)
       /\ UNCHANGED <<subject, wire, overflow_checks>>
    \/ /\ fn = "CompactSize::to_bytes"
       /\ \E b \in Truncations(wire) :
           /\ fn' = "CompactSize::from_bytes"
           /\ slice' = b
           /\ ret' = CompactSize_from_bytes(b)
       /\ subject' = None
       /\ wire' = <<>>
       /\ UNCHANGED overflow_checks

Call_OutPoint_to_bytes ==
    /\ fn = "idle"
    /\ \E v \in OutPoints :
        /\ fn' = "OutPoint::to_bytes"
        /\ subject' = v
        /\ wire' = OutPoint_to_bytes(v)
    /\ UNCHANGED <<slice, ret, overflow_checks>>

Call_OutPoint_from_bytes ==
    \/ /\ fn = "idle"
       /\ \E b \in RawSlices :
           /\ fn' = "OutPoint::from_bytes"
           /\ slice' = b
           /\ ret' = OutPoint_from_bytes(b)
       /\ UNCHANGED <<subject, wire, overflow_checks>>
    \/ /\ fn = "OutPoint::to_bytes"
       /\ \E b \in Buffers(wire) :
           /\ fn' = "OutPoint::from_bytes"
           /\ slice' = b
           /\ ret' = OutPoint_from_bytes(b)
       /\ UNCHANGED <<subject, wire, overflow_checks>>
    \/ /\ fn = "OutPoint::to_bytes"
       /\ \E b \in Truncations(wire) :
           /\ fn' = "OutPoint::from_bytes"
           /\ slice' = b
           /\ ret' = OutPoint_from_bytes(b)
       /\ subject' = None
       /\ wire' = <<>>
       /\ UNCHANGED overflow_checks

Call_Script_to_bytes ==
    /\ fn = "idle"
    /\ \E v \in Scripts :
        /\ fn' = "Script::to_bytes"
        /\ subject' = v
        /\ wire' = Script_to_bytes(v)
    /\ UNCHANGED <<slice, ret, overflow_checks>>

Call_Script_from_bytes ==
    \/ /\ fn = "idle"
       /\ \E b \in RawSlices :
           /\ fn' = "Script::from_bytes"
           /\ slice' = b
           /\ ret' = Script_from_bytes(b, overflow_checks)
       /\ UNCHANGED <<subject, wire, overflow_checks>>
    \/ /\ fn = "Script::to_bytes"
       /\ \E b \in Buffers(wire) :
           /\ fn' = "Script::from_bytes"
           /\ slice' = b
           /\ ret' = Script_from_bytes(b, overflow_checks)
       /\ UNCHANGED <<subject, wire, overflow_checks>>
    \/ /\ fn = "Script::to_bytes"
       /\ \E b \in Truncations(wire) :
           /\ fn' = "Script::from_bytes"
           /\ slice' = b
           /\ ret' = Script_from_bytes(b, overflow_checks)
       /\ subject' = None
       /\ wire' = <<>>
       /\ UNCHANGED overflow_checks

Call_TransactionInput_to_bytes ==
    /\ fn = "idle"
    /\ \E v \in TransactionInputs :
        /\ fn' = "TransactionInput::to_bytes"
        /\ subject' = v
        /\ wire' = TransactionInput_to_bytes(v)
    /\ UNCHANGED <<slice, ret, overflow_checks>>

Call_TransactionInput_from_bytes ==
    \/ /\ fn = "idle"
       /\ \E b \in RawSlices :
           /\ fn' = "TransactionInput::from_bytes"
           /\ slice' = b
           /\ ret' = TransactionInput_from_bytes(b, overflow_checks)
       /\ UNCHANGED <<subject, wire, overflow_checks>>
    \/ /\ fn = "idle"
       /\ \E h \in Headers, b \in RawSlices :
           /\ fn' = "TransactionInput::from_bytes"
           /\ slice' = h \o b
           /\ ret' = TransactionInput_from_bytes(h \o b, overflow_checks)
       /\ UNCHANGED <<subject, wire, overflow_checks>>
    \/ /\ fn = "TransactionInput::to_bytes"
       /\ \E b \in Buffers(wire) :
           /\ fn' = "TransactionInput::from_bytes"
           /\ slice' = b
           /\ ret' = TransactionInput_from_bytes(b, overflow_checks)
       /\ UNCHANGED <<subject, wire, overflow_checks>>
    \/ /\ fn = "TransactionInput::to_bytes"
       /\ \E b \in Truncations(wire) :
           /\ fn' = "TransactionInput::from_bytes"
           /\ slice' = b
           /\ ret' = TransactionInput_from_bytes(b, overflow_checks)
       /\ subject' = None
       /\ wire' = <<>>
       /\ UNCHANGED overflow_checks

Call_BitcoinTransaction_to_bytes ==
    /\ fn = "idle"
    /\ \E v \in Transactions :
        /\ fn' = "BitcoinTransaction::to_bytes"
        /\ subject' = v
        /\ wire' = BitcoinTransaction_to_bytes(v)
    /\ UNCHANGED <<slice, ret, overflow_checks>>

Call_BitcoinTransaction_from_bytes ==
    \/ /\ fn = "idle"
       /\ \E b \in RawSlices :
           /\ fn' = "BitcoinTransaction::from_bytes"
           /\ slice' = b
           /\ ret' = BitcoinTransaction_from_bytes(b)
       /\ UNCHANGED <<subject, wire, overflow_checks>>
    \/ /\ fn = "BitcoinTransaction::to_bytes"
       /\ \E b \in Buffers(wire) :
           /\ fn' = "BitcoinTransaction::from_bytes"
           /\ slice' = b
           /\ ret' = BitcoinTransaction_from_bytes(b)
       /\ UNCHANGED <<subject, wire, overflow_checks>>
    \/ /\ fn = "BitcoinTransaction::to_bytes"
       /\ \E b \in Truncations(wire) :
           /\ fn' = "BitcoinTransaction::from_bytes"
           /\ slice' = b
           /\ ret' = BitcoinTransaction_from_bytes(b)
       /\ subject' = None
       /\ wire' = <<>>
       /\ UNCHANGED overflow_checks

Next ==
    \/ Call_CompactSize_to_bytes
    \/ Call_CompactSize_from_bytes
    \/ Call_OutPoint_to_bytes
    \/ Call_OutPoint_from_bytes
    \/ Call_Script_to_bytes
    \/ Call_Script_from_bytes
    \/ Call_TransactionInput_to_bytes
    \/ Call_TransactionInput_from_bytes
    \/ Call_BitcoinTransaction_to_bytes
    \/ Call_BitcoinTransaction_from_bytes

Spec == Init /\ [][Next]_vars

----------------------------------------------------------------------------
(* The claims *)

\* C1: TransactionInput::from_bytes, on a slice of at least 41 bytes whose Script
\* at offset 36 decodes consuming s bytes, returns Err(InsufficientBytes) when
\* fewer than 4 bytes remain after offset 36 + s; it does not panic there.
C1_ShortSequenceIsInsufficientBytes ==
    (fn = "TransactionInput::from_bytes" /\ Len(slice) >= 41) =>
        LET script == Script_from_bytes(SubSeq(slice, 37, Len(slice)), overflow_checks) IN
        (IsOk(script) /\ Len(slice) < 36 + script.used + 4) => ret = Err(InsufficientBytes)

\* C2: BitcoinTransaction::from_bytes applied to t.to_bytes() returns
\* Ok((t, len(t.to_bytes()))).
C2_TransactionRoundTrip ==
    (fn = "BitcoinTransaction::from_bytes" /\ subject /= None /\ slice = wire) =>
        ret = Ok(subject, Len(wire))

\* C3: Script::from_bytes, when the CompactSize prefix decodes to a declared
\* length L and fewer than L bytes follow the prefix, returns
\* Err(InsufficientBytes), for every 64-bit L, and never panics.
C3_ShortPayloadIsInsufficientBytes ==
    fn = "Script::from_bytes" =>
        LET prefix == CompactSize_from_bytes(slice) IN
        (IsOk(prefix) /\ U64_lt(U64_from_small(Len(slice) - prefix.used), prefix.val.value))
            => ret = Err(InsufficientBytes)

\* C4: for every u64 v, CompactSize::from_bytes(CompactSize::new(v).to_bytes())
\* returns Ok((CompactSize{value: v}, n)) with n the length of the encoding,
\* which is 1, 3, 5 or 9.
C4_CompactSizeRoundTrip ==
    (fn = "CompactSize::from_bytes" /\ subject /= None /\ slice = wire) =>
        /\ ret = Ok(subject, Len(wire))
        /\ Len(wire) \in {1, 3, 5, 9}

\* a round trip of 0x100000000, the smallest value that takes 9 bytes
C4_Witness ==
    /\ fn = "CompactSize::from_bytes" /\ subject /= None /\ slice = wire
    /\ subject.value = <<0, 1, 0, 0>>
    /\ IsOk(ret) /\ ret.used = 9

\* C5: CompactSize::from_bytes rejects every non-minimal encoding with
\* InvalidFormat when the 3, 5 or 9 bytes are present and fails with
\* InsufficientBytes when they are not; so whenever it returns Ok((c, n)), the
\* first n bytes of the slice are c.to_bytes().
C5_MinimalEncodingOnly ==
    (fn = "CompactSize::from_bytes" /\ Len(slice) >= 1) =>
        /\ slice[1] = 253 =>
            IF Len(slice) < 3 THEN ret = Err(InsufficientBytes)
            ELSE (slice[2] + 256 * slice[3] < 253 => ret = Err(InvalidFormat))
        /\ slice[1] = 254 =>
            IF Len(slice) < 5 THEN ret = Err(InsufficientBytes)
            ELSE ((slice[4] = 0 /\ slice[5] = 0) => ret = Err(InvalidFormat))
        /\ slice[1] = 255 =>
            IF Len(slice) < 9 THEN ret = Err(InsufficientBytes)
            ELSE ((\A i \in 6..9 : slice[i] = 0) => ret = Err(InvalidFormat))
        /\ IsOk(ret) => SubSeq(slice, 1, ret.used) = CompactSize_to_bytes(ret.val)

\* FD FC 00: the value 252 written in three bytes
C5_Witness ==
    /\ fn = "CompactSize::from_bytes"
    /\ slice = <<253, 252, 0>>
    /\ ret = Err(InvalidFormat)

\* C6: for every TransactionInput e, TransactionInput::from_bytes on
\* e.to_bytes(), also when further bytes follow it, returns
\* Ok((e, len(e.to_bytes()))), where len(e.to_bytes()) = 36 + the length of the
\* script's encoding + 4.
C6_TransactionInputRoundTrip ==
    (fn = "TransactionInput::from_bytes" /\ subject /= None) =>
        /\ ret = Ok(subject, Len(wire))
        /\ Len(wire) = 36 + Len(Script_to_bytes(subject.script_sig)) + 4

\* an input with a payload of at least 0xFD bytes, decoded from a longer buffer
C6_Witness ==
    /\ fn = "TransactionInput::from_bytes" /\ subject /= None
    /\ Len(subject.script_sig.bytes) >= 253
    /\ Len(slice) > Len(wire)
    /\ IsOk(ret)

\* C7: no decoder above CompactSize returns InvalidFormat: Script::from_bytes
\* returns InsufficientBytes when its CompactSize prefix is non-minimal, and the
\* only error TransactionInput::from_bytes returns is InsufficientBytes.
C7_ErrorCoarsening ==
    /\ fn \in {"OutPoint::from_bytes", "Script::from_bytes",
               "TransactionInput::from_bytes", "BitcoinTransaction::from_bytes"}
        => ~(IsErr(ret) /\ ret.err = InvalidFormat)
    /\ (fn = "Script::from_bytes" /\ CompactSize_from_bytes(slice) = Err(InvalidFormat))
        => ret = Err(InsufficientBytes)
    /\ (fn = "TransactionInput::from_bytes" /\ IsErr(ret)) => ret.err = InsufficientBytes

\* a Script whose prefix is FD FC 00
C7_Witness ==
    /\ fn = "Script::from_bytes"
    /\ Len(slice) >= 3 /\ SubSeq(slice, 1, 3) = <<253, 252, 0>>
    /\ ret = Err(InsufficientBytes)

\* C8: for every Script s and bytes t, Script::from_bytes(s.to_bytes() ++ t)
\* returns Ok((s, p + L)), L the payload length and p the length of
\* CompactSize(L); a 300-byte payload's encoding starts FD 2C 01 and 303 bytes
\* are consumed.
C8_ScriptIgnoresTrailingBytes ==
    (fn = "Script::from_bytes" /\ subject /= None) =>
        LET L == Len(subject.bytes)
            p == Len(CompactSize_to_bytes(CompactSize_new(U64_from_small(L))))
        IN  /\ ret = Ok(subject, p + L)
            /\ L = 300 => (SubSeq(slice, 1, 3) = <<253, 44, 1>> /\ ret.used = 303)

\* the 300-byte payload followed by unrelated bytes
C8_Witness ==
    /\ fn = "Script::from_bytes" /\ subject /= None
    /\ Len(subject.bytes) = 300
    /\ Len(slice) > Len(wire)
    /\ IsOk(ret) /\ ret.used = 303

\* C9: OutPoint::to_bytes yields exactly 36 bytes, the 32 identifier bytes then
\* the index little-endian; OutPoint::from_bytes succeeds on every slice of at
\* least 36 bytes, reading [0,32) as the identifier and [32,36) as the index and
\* reporting 36 consumed, and returns InsufficientBytes on every shorter slice.
C9_OutPointExactness ==
    /\ fn = "OutPoint::to_bytes" =>
        /\ Len(wire) = 36
        /\ SubSeq(wire, 1, 32) = subject.txid
        /\ wire[33] = subject.vout[2] % 256 /\ wire[34] = subject.vout[2] \div 256
        /\ wire[35] = subject.vout[1] % 256 /\ wire[36] = subject.vout[1] \div 256
    /\ fn = "OutPoint::from_bytes" =>
        IF Len(slice) >= 36
        THEN ret = Ok([txid |-> SubSeq(slice, 1, 32),
                       vout |-> <<slice[35] + 256 * slice[36], slice[33] + 256 * slice[34]>>], 36)
        ELSE ret = Err(InsufficientBytes)

\* a slice of exactly 36 bytes
C9_Witness ==
    /\ fn = "OutPoint::from_bytes"
    /\ Len(slice) = 36
    /\ IsOk(ret) /\ ret.used = 36

\* where the inputs end when, from `offset` on, `buffer` holds exactly the
\* encodings of `inputs` in order; -1 when it does not
RECURSIVE InputsEnd(_, _, _, _)
InputsEnd(buffer, offset, inputs, checks) ==
    IF inputs = <<>> THEN offset
    ELSE LET r == TransactionInput_from_bytes(SubSeq(buffer, offset + 1, Len(buffer)), checks) IN
         IF IsOk(r) /\ r.val = Head(inputs)
         THEN InputsEnd(buffer, offset + r.used, Tail(inputs), checks)
         ELSE -1

RECURSIVE SumOfLengths(_)
SumOfLengths(inputs) ==
    IF inputs = <<>> THEN 0
    ELSE Len(TransactionInput_to_bytes(Head(inputs))) + SumOfLengths(Tail(inputs))

\* C10: BitcoinTransaction::to_bytes produces the version (4 bytes LE), the
\* minimal CompactSize of the number of inputs, each input's bytes in list order
\* and the lock_time (4 bytes LE); its length is 4 + prefix + sum of the inputs'
\* lengths + 4, which is 9 for no inputs.
C10_TransactionLayout ==
    fn = "BitcoinTransaction::to_bytes" =>
        LET count == CompactSize_from_bytes(SubSeq(wire, 5, Len(wire)))
            end == InputsEnd(wire, 4 + count.used, subject.inputs, overflow_checks)
        IN  /\ Len(wire) >= 9
            /\ U32_from_le_bytes(SubSeq(wire, 1, 4)) = subject.version
            /\ IsOk(count)
            /\ count.val.value = U64_from_small(Len(subject.inputs))
            /\ end >= 0
            /\ end + 4 = Len(wire)
            /\ U32_from_le_bytes(SubSeq(wire, end + 1, end + 4)) = subject.lock_time
            /\ Len(wire) = 4 + count.used + SumOfLengths(subject.inputs) + 4
            /\ subject.inputs = <<>> => Len(wire) = 9

\* a transaction of three different inputs
C10_Witness ==
    /\ fn = "BitcoinTransaction::to_bytes"
    /\ Len(subject.inputs) = 3
    /\ subject.inputs[1] /= subject.inputs[2] /\ subject.inputs[2] /= subject.inputs[3]
    /\ Len(wire) > 9

====
